---- MODULE Spec2Model ----
(***************************************************************************)
(* A model of src/scrape_tayara.py: the page scraper's paging loop and    *)
(* record construction (scrape_tayara), the cleaning and enrichment of a   *)
(* batch                                                                   *)
(* (clean_and_enhance_data), the insert-if-absent sink (save_to_mongodb)   *)
(* and the driver (main).                                                  *)
(*                                                                         *)
(* Text is a sequence of one-character strings, so that trimming,          *)
(* splitting, lower-casing and substring search are computed and not       *)
(* assumed.  A pandas cell that may be missing (None/NaN) is a record      *)
(* [na, s] for text and [present, v] for numbers.  Degrees are integers in *)
(* millionths of a degree; pricePerSqFt is an integer in hundredths.       *)
(***************************************************************************)
EXTENDS Integers, Sequences, FiniteSets, TLC

VARIABLES
  entry,       \* "main": the batch is scraped by main(); "call": a caller passes it
  pc,          \* position of the run
  hasUrl,      \* the batch carries a sourceUrl column
  results,     \* the list `results` of raw records
  df,          \* the DataFrame returned by clean_and_enhance_data
  df2,         \* the DataFrame of a second pass over df's own records
  collection,  \* the documents of db['properties'], in insertion order
  sinkCalls,   \* calls of save_to_mongodb in this run
  exported,    \* the CSV/JSON backup files were written in this run
  runs,        \* runs started so far
  page,        \* scrape_tayara: the number of the listing page to fetch next
  cards,       \* scrape_tayara: cards of the fetched page not yet handled
  fetched      \* scrape_tayara: listing pages fetched with driver.get so far

vars == <<entry, pc, hasUrl, results, df, df2, collection, sinkCalls, exported, runs,
          page, cards, fetched>>

(***************************************************************************)
(* Bounds of the model.                                                    *)
(***************************************************************************)
MaxBatch == 2     \* records in one batch
MaxRuns == 2      \* runs of the program against the same collection
RandSteps == 2    \* random.random() returns k/RandSteps, k in 0..RandSteps-1
MaxCards == 6     \* cards on one listing page

(***************************************************************************)
(* Text.                                                                   *)
(***************************************************************************)
Whitespace == {" ", "\t", "\n"}

UpperCase ==
  <<"A","B","C","D","E","F","G","H","I","J","K","L","M",
    "N","O","P","Q","R","S","T","U","V","W","X","Y","Z">>

LowerCase ==
  <<"a","b","c","d","e","f","g","h","i","j","k","l","m",
    "n","o","p","q","r","s","t","u","v","w","x","y","z">>

DigitChars == <<"0","1","2","3","4","5","6","7","8","9">>

\* the lower-case letter of each upper-case letter
LowerOf ==
  [c \in {UpperCase[i] : i \in 1..26} |->
     LowerCase[CHOOSE i \in 1..26 : UpperCase[i] = c]]

LowerChar(c) == IF c \in DOMAIN LowerOf THEN LowerOf[c] ELSE c

\* str.lower()
Lower(s) == [i \in 1..Len(s) |-> LowerChar(s[i])]

RECURSIVE LStrip(_)
LStrip(s) ==
  IF s # <<>> /\ Head(s) \in Whitespace THEN LStrip(Tail(s)) ELSE s

RECURSIVE RStrip(_)
RStrip(s) ==
  IF s # <<>> /\ s[Len(s)] \in Whitespace
    THEN RStrip(SubSeq(s, 1, Len(s) - 1))
    ELSE s

\* str.strip()
Strip(s) == RStrip(LStrip(s))

\* re.sub(r"\s+", " ", s)
RECURSIVE CollapseWhitespace(_)
CollapseWhitespace(s) ==
  IF s = <<>> THEN <<>>
  ELSE IF Head(s) \in Whitespace
    THEN <<" ">> \o CollapseWhitespace(LStrip(s))
    ELSE <<Head(s)>> \o CollapseWhitespace(Tail(s))

\* s.startswith(p)
StartsWith(s, p) == Len(s) >= Len(p) /\ SubSeq(s, 1, Len(p)) = p

\* p in s
Contains(s, p) ==
  \E i \in 0..(Len(s) - Len(p)) : SubSeq(s, i + 1, i + Len(p)) = p

\* s.split(sep), sep one character
RECURSIVE Split(_, _)
Split(s, sep) ==
  IF \E i \in 1..Len(s) : s[i] = sep
    THEN LET i == CHOOSE k \in 1..Len(s) :
                    s[k] = sep /\ \A j \in 1..(k - 1) : s[j] # sep
         IN  <<SubSeq(s, 1, i - 1)>> \o Split(SubSeq(s, i + 1, Len(s)), sep)
    ELSE <<s>>

\* A text cell: a str, or missing (None, NaN)
Str(s) == [na |-> FALSE, s |-> s]
NA == [na |-> TRUE, s |-> <<>>]

\* A numeric cell: a number, or missing
Some(n) == [present |-> TRUE, v |-> n]
Null == [present |-> FALSE, v |-> 0]

(***************************************************************************)
(* Governorates and coordinates.                                           *)
(***************************************************************************)
GOVERNORATE_COORDINATES ==
  <<
    [name |-> <<"T","u","n","i","s">>, lng |-> 10181500, lat |-> 36806500],
    [name |-> <<"A","r","i","a","n","a">>, lng |-> 10193900, lat |-> 36862500],
    [name |-> <<"B","e","n"," ","A","r","o","u","s">>, lng |-> 10223300, lat |-> 36753500],
    [name |-> <<"M","a","n","o","u","b","a">>, lng |-> 10098600, lat |-> 36808900],
    [name |-> <<"N","a","b","e","u","l">>, lng |-> 10691200, lat |-> 36451300],
    [name |-> <<"B","i","z","e","r","t","e">>, lng |-> 9864200, lat |-> 37274400],
    [name |-> <<"Z","a","g","h","o","u","a","n">>, lng |-> 10142800, lat |-> 36402800],
    [name |-> <<"B","e","j","a">>, lng |-> 9184400, lat |-> 36725600],
    [name |-> <<"J","e","n","d","o","u","b","a">>, lng |-> 8755000, lat |-> 36501200],
    [name |-> <<"K","e","f">>, lng |-> 8704700, lat |-> 36167500],
    [name |-> <<"S","i","l","i","a","n","a">>, lng |-> 9390900, lat |-> 36087500],
    [name |-> <<"S","o","u","s","s","e">>, lng |-> 10641200, lat |-> 35824500],
    [name |-> <<"M","o","n","a","s","t","i","r">>, lng |-> 10780900, lat |-> 35764000],
    [name |-> <<"M","a","h","d","i","a">>, lng |-> 11062200, lat |-> 35504400],
    [name |-> <<"K","a","i","r","o","u","a","n">>, lng |-> 10096300, lat |-> 35678100],
    [name |-> <<"K","a","s","s","e","r","i","n","e">>, lng |-> 8836500, lat |-> 35172200],
    [name |-> <<"S","i","d","i"," ","B","o","u","z","i","d">>, lng |-> 9496800, lat |-> 35038200],
    [name |-> <<"S","f","a","x">>, lng |-> 10760000, lat |-> 34740000],
    [name |-> <<"G","a","b","e","s">>, lng |-> 10098200, lat |-> 33882800],
    [name |-> <<"M","e","d","e","n","i","n","e">>, lng |-> 10505000, lat |-> 33345000],
    [name |-> <<"T","a","t","a","o","u","i","n","e">>, lng |-> 10450700, lat |-> 32922700],
    [name |-> <<"T","o","z","e","u","r">>, lng |-> 8133500, lat |-> 33918500],
    [name |-> <<"K","e","b","i","l","i">>, lng |-> 8971500, lat |-> 33707200],
    [name |-> <<"G","a","f","s","a">>, lng |-> 8709400, lat |-> 34431100]
  >>

NumGovernorates == Len(GOVERNORATE_COORDINATES)

Unknown == <<"U","n","k","n","o","w","n">>

\* the default centroid of get_coordinates_from_location
DefaultLng == 10181500
DefaultLat == 36806500

\* (random.random() - 0.5) * width, random.random() = k / RandSteps,
\* width in millionths of a degree
Jitter(k, width) == ((k * width) \div RandSteps) - (width \div 2)

\* governorate.lower() of every entry of the table
LowerNames ==
  [g \in 1..NumGovernorates |-> Lower(GOVERNORATE_COORDINATES[g].name)]

\* a faulty variant: the last match of the table instead of the first
extract_governorate_last(address) ==
  LET text == Lower(address)
      hits == {g \in 1..NumGovernorates : Contains(text, LowerNames[g])}
  IN  IF hits = {} THEN <<>>
      ELSE GOVERNORATE_COORDINATES[CHOOSE g \in hits : \A h \in hits : h <= g].name

\* The first governorate, in the order of the table, whose lower-cased name
\* occurs in the lower-cased address; <<>> stands for None
extract_governorate(address) ==
  LET text == Lower(address)
      hits == {g \in 1..NumGovernorates : Contains(text, LowerNames[g])}
  IN  IF hits = {} THEN <<>>   \* None
      ELSE GOVERNORATE_COORDINATES[CHOOSE g \in hits : \A h \in hits : g <= h].name

\* a faulty variant: the default centroid and the wide offset for every text
get_coordinates_from_location_wide(location_text, r1, r2) ==
  <<DefaultLng + Jitter(r1, 200000), DefaultLat + Jitter(r2, 200000)>>

\* r1, r2: the two draws of random.random(), as multiples of 1/RandSteps
get_coordinates_from_location(location_text, r1, r2) ==
  LET text == Lower(location_text)
      hits == {g \in 1..NumGovernorates : Contains(text, LowerNames[g])}
  IN  IF hits # {}
        THEN LET coords == GOVERNORATE_COORDINATES[CHOOSE g \in hits : \A h \in hits : g <= h]
             IN  <<coords.lng + Jitter(r1, 50000), coords.lat + Jitter(r2, 50000)>>
        ELSE <<DefaultLng + Jitter(r1, 200000), DefaultLat + Jitter(r2, 200000)>>

(***************************************************************************)
(* Cells of the images column.                                             *)
(***************************************************************************)
\* images given as one comma-joined str
ImgStr(s) == [isStr |-> TRUE, s |-> s, l |-> <<>>]
\* images given as a list; each entry a text cell (NA: an entry that is no str)
ImgList(l) == [isStr |-> FALSE, s |-> <<>>, l |-> l]

\* The subsequence of d at the positions in S, in order (a boolean-mask selection)
Pick(d, S) ==
  LET F[i \in 0..Len(d)] ==
        IF i = 0 THEN <<>>
        ELSE IF i \in S THEN Append(F[i - 1], d[i]) ELSE F[i - 1]
  IN  F[Len(d)]

\* pd.DataFrame(results): one row per record, labelled by a RangeIndex
DataFrame(recs) == [i \in 1..Len(recs) |-> recs[i] @@ [idx |-> i - 1]]

\* a faulty variant: the frame is never taken to be empty
DfEmptyNever(d) == FALSE

\* df.empty
DfEmpty(d) == Len(d) = 0

(***************************************************************************)
(* clean_and_enhance_data: basic cleaning (the first try block).           *)
(***************************************************************************)
DedupKey(r) == <<r.description, r.price, r.sourceUrl>>

\* a faulty variant: keep="last"
DropDuplicatesKeepLast(d) ==
  Pick(d, {i \in 1..Len(d) :
             ~ \E j \in (i + 1)..Len(d) : DedupKey(d[j]) = DedupKey(d[i])})

\* a faulty variant: no row is dropped
DropDuplicatesNone(d) == d

\* df.drop_duplicates(subset=["description", "price", "sourceUrl"], inplace=True)
DropDuplicates(d) ==
  Pick(d, {i \in 1..Len(d) :
             ~ \E j \in 1..(i - 1) : DedupKey(d[j]) = DedupKey(d[i])})

\* df = df[df["price"] > 10]
PriceFilter(d) == Pick(d, {i \in 1..Len(d) : d[i].price > 10})

\* Series.str.strip(): a cell that is no str becomes NaN
StrStrip(c) == IF c.na THEN NA ELSE Str(Strip(c.s))

\* Series.str.replace(r"\s+", " ", regex=True).str.strip()
StrNormalize(c) == IF c.na THEN NA ELSE Str(Strip(CollapseWhitespace(c.s)))

\* df["description"] = ...; df["address"] = ...
NormalizeText(d) ==
  [i \in 1..Len(d) |->
     [d[i] EXCEPT !.description = StrStrip(@), !.address = StrNormalize(@)]]

\* df.dropna(subset=["description", "price", "address"], inplace=True);
\* price is an int in every record, and "" is not a missing value
Dropna(d) ==
  Pick(d, {i \in 1..Len(d) : ~ d[i].description.na /\ ~ d[i].address.na})

HttpPrefix == <<"h","t","t","p">>

\* [img for img in imgs if isinstance(img, str) and img.startswith("http")];
\* iterating a str yields its characters
ValidImages(cell) ==
  LET imgs == IF cell.isStr
                THEN [i \in 1..Len(cell.s) |-> Str(<<cell.s[i]>>)]
                ELSE cell.l
  IN  ImgList(SelectSeq(imgs, LAMBDA img : ~ img.na /\ StartsWith(img.s, HttpPrefix)))

\* img_str.split(",")
SplitImages(cell) ==
  LET parts == Split(cell.s, ",")
  IN  ImgList([i \in 1..Len(parts) |-> Str(parts[i])])

\* Lines 252-256.  The split is chosen by the first row alone; a list has no
\* split(), so a list row under it raises, the except clause of the block
\* swallows the exception and the images column stays as it was.
RepairImages(d) ==
  IF Len(d) > 0 /\ d[1].images.isStr
    THEN IF \E i \in 1..Len(d) : ~ d[i].images.isStr
           THEN d
           ELSE [i \in 1..Len(d) |->
                   [d[i] EXCEPT !.images = ValidImages(SplitImages(@))]]
    ELSE [i \in 1..Len(d) |-> [d[i] EXCEPT !.images = ValidImages(@)]]

\* Lines 244-258.  Without a sourceUrl column drop_duplicates raises KeyError
\* before it changes anything, and the whole block is skipped.
BasicCleaning(d, urlColumn) ==
  IF ~ urlColumn THEN d
  ELSE RepairImages(Dropna(NormalizeText(PriceFilter(DropDuplicates(d)))))

(***************************************************************************)
(* clean_and_enhance_data: area extraction and price per square foot (the  *)
(* second try block).                                                      *)
(***************************************************************************)
\* the value of each digit character
DigitOf ==
  [c \in {DigitChars[i] : i \in 1..10} |->
     (CHOOSE i \in 1..10 : DigitChars[i] = c) - 1]

IsDigit(c) == c \in DOMAIN DigitOf

DigitVal(c) == DigitOf[c]

\* int(s) for a non-empty run of digits
RECURSIVE ToInt(_)
ToInt(s) ==
  IF s = <<>> THEN 0
  ELSE 10 * ToInt(SubSeq(s, 1, Len(s) - 1)) + DigitVal(s[Len(s)])

\* (m²|m2| m) at position p of t
UnitAt(t, p) ==
  /\ p + 1 <= Len(t)
  /\ \/ t[p] = "m" /\ t[p + 1] \in {"²", "2"}
     \/ t[p] = " " /\ t[p + 1] = "m"

\* \s*(m²|m2| m) at position p of t
UnitAfterSpaces(t, p) ==
  \E k \in 0..(Len(t) - p + 1) :
    /\ \A j \in p..(p + k - 1) : t[j] \in Whitespace
    /\ UnitAt(t, p + k)

\* the lengths n of (\d{1,5}) with which the pattern matches at position s
MatchLengths(t, s) ==
  {n \in 1..5 :
     /\ s + n - 1 <= Len(t)
     /\ \A j \in s..(s + n - 1) : IsDigit(t[j])
     /\ UnitAfterSpaces(t, s + n)}

\* re.search(r"(\d{1,5})\s*(m²|m2| m)", text.lower()): the leftmost start, and
\* there the longest run of digits the greedy quantifier can keep
extract_area_m2(text) ==
  IF text.na THEN Null
  ELSE LET t == Lower(text.s)
           starts == {s \in 1..Len(t) : MatchLengths(t, s) # {}}
       IN  IF starts = {} THEN Null
           ELSE LET s == CHOOSE x \in starts : \A y \in starts : x <= y
                    n == CHOOSE x \in MatchLengths(t, s) :
                           \A y \in MatchLengths(t, s) : y <= x
                IN  Some(ToInt(SubSeq(t, s, s + n - 1)))

\* round(): to the nearest integer, an exact tie to the even one; num >= 0, den > 0
RoundHalfEven(num, den) ==
  LET q == num \div den
      r == num % den
  IN  IF 2 * r < den THEN q
      ELSE IF 2 * r > den THEN q + 1
      ELSE IF q % 2 = 0 THEN q ELSE q + 1

\* round(m2 * 10.7639) if pd.notnull(m2) else None
SquareFeet(m2) ==
  IF m2.present THEN Some(RoundHalfEven(m2.v * 107639, 10000)) ELSE Null

\* round(row["price"] / row["area"], 2) if ... row["area"] > 0 else None,
\* in hundredths
PricePerSqFt(price, area) ==
  IF area.present /\ area.v > 0
    THEN Some(RoundHalfEven(price * 100, area.v))
    ELSE Null

\* df["pricePerSqFt"].between(1, 5000, inclusive="both") | df["pricePerSqFt"].isnull()
\* a faulty variant: the upper limit excluded
InRangeExclusive(ppsf) == ~ ppsf.present \/ (ppsf.v >= 100 /\ ppsf.v < 500000)

InRangeOrNull(ppsf) == ~ ppsf.present \/ (ppsf.v >= 100 /\ ppsf.v <= 500000)

\* Lines 270-281
AreaStage(d) ==
  LET withArea ==
        [i \in 1..Len(d) |->
           LET m2 == extract_area_m2(d[i].description)
               sqft == SquareFeet(m2)
           IN  d[i] @@ [originalArea |-> m2,
                        area |-> sqft,
                        pricePerSqFt |-> PricePerSqFt(d[i].price, sqft)]]
  IN  Pick(withArea, {i \in 1..Len(d) : InRangeOrNull(withArea[i].pricePerSqFt)})

(***************************************************************************)
(* clean_and_enhance_data: categories, price format and feature flags.     *)
(***************************************************************************)
KwTerrain == <<"t","e","r","r","a","i","n">>

KwAgricole == <<"a","g","r","i","c","o","l","e">>

KwIndustriel == <<"i","n","d","u","s","t","r","i","e","l">>

KwCommercial == <<"c","o","m","m","e","r","c","i","a","l">>

KwMagasin == <<"m","a","g","a","s","i","n">>

KwFerme == <<"f","e","r","m","e">>

KwMer == <<"m","e","r">>

KwLac == <<"l","a","c">>

ResidentialWords ==
  {<<"v","i","l","l","a">>,
   <<"a","p","p","a","r","t","e","m","e","n","t">>,
   <<"s","t","u","d","i","o">>,
   <<"i","m","m","e","u","b","l","e">>,
   <<"r","é","s","i","d","e","n","c","e">>}

IndustrialWords ==
  {<<"d","é","p","ô","t">>,
   <<"i","n","d","u","s","t","r","i","e","l">>,
   <<"u","s","i","n","e">>}

infer_zoning(description) ==
  IF description.na THEN "unknown"
  ELSE LET desc == Lower(description.s)
       IN  IF \E word \in ResidentialWords : Contains(desc, word) THEN "residential"
           ELSE IF \E word \in IndustrialWords : Contains(desc, word) THEN "industrial"
           ELSE IF Contains(desc, KwCommercial) \/ Contains(desc, KwMagasin)
             THEN "commercial"
           ELSE IF Contains(desc, KwAgricole) \/ Contains(desc, KwFerme)
             THEN "agricultural"
           ELSE "unknown"

\* a faulty variant: the tag of a "terrain" text is taken from its zoning
infer_property_type_by_zoning(description) ==
  IF description.na THEN "autre"
  ELSE LET desc == Lower(description.s)
           zoning == infer_zoning(description)
       IN  IF Contains(desc, KwTerrain)
             THEN IF zoning = "agricultural" THEN "terrain_agricole"
                  ELSE IF zoning = "industrial" THEN "terrain_industriel"
                  ELSE IF zoning = "commercial" THEN "terrain_commercial"
                  ELSE "terrain_construction"
             ELSE "autre"

infer_property_type(description) ==
  IF description.na THEN "autre"
  ELSE LET desc == Lower(description.s)
       IN  IF Contains(desc, KwTerrain)
             THEN IF Contains(desc, KwAgricole) THEN "terrain_agricole"
                  ELSE IF Contains(desc, KwIndustriel) THEN "terrain_industriel"
                  ELSE IF Contains(desc, KwCommercial) THEN "terrain_commercial"
                  ELSE "terrain_construction"
             ELSE "autre"

\* str(n) for n >= 0
RECURSIVE ToDigits(_)
ToDigits(n) ==
  IF n < 10 THEN <<DigitChars[n + 1]>>
  ELSE ToDigits(n \div 10) \o <<DigitChars[(n % 10) + 1]>>

\* f"{p:,} DT".replace(",", " ")
FormatPrice(p) ==
  LET ds == ToDigits(p)
      G[i \in 0..Len(ds)] ==
        IF i = 0 THEN <<>>
        ELSE IF i > 1 /\ (Len(ds) - i + 1) % 3 = 0
          THEN G[i - 1] \o <<" ", ds[i]>>
          ELSE Append(G[i - 1], ds[i])
  IN  G[Len(ds)] \o <<" ", "D", "T">>

\* "mer" in desc.lower() or "lac" in desc.lower() if isinstance(desc, str) else False
NearWater(description) ==
  IF description.na THEN FALSE
  ELSE Contains(Lower(description.s), KwMer) \/ Contains(Lower(description.s), KwLac)

\* Lines 283-324
Enhance(d) ==
  [i \in 1..Len(d) |->
     d[i] @@ [propertyType |-> infer_property_type(d[i].description),
              zoning |-> infer_zoning(d[i].description),
              originalPrice |-> FormatPrice(d[i].price),
              nearWater |-> NearWater(d[i].description),
              roadAccess |-> TRUE,
              utilities |-> TRUE]]

\* clean_and_enhance_data(results); urlColumn: the records carry a sourceUrl
clean_and_enhance_data(recs, urlColumn) ==
  LET frame == DataFrame(recs)
  IN  IF DfEmpty(frame) THEN frame
      ELSE Enhance(AreaStage(BasicCleaning(frame, urlColumn)))

(***************************************************************************)
(* save_to_mongodb.                                                        *)
(***************************************************************************)
\* `if "area" in prop and prop["area"]`: a zero is not stored
StoredNumber(cell) == IF cell.present /\ cell.v # 0 THEN cell ELSE Null

\* The document built from one row (lines 373-427), without its timestamps.
\* coordinates: prop.get("coordinates", [10.1815, 36.8065])
MongoDoc(prop, urlColumn) ==
  [hasUrl |-> urlColumn,
   sourceUrl |-> prop.sourceUrl,
   address |-> prop.address,
   price |-> prop.price,
   coordinates |-> IF prop.coordinates = <<>>
                     THEN <<DefaultLng, DefaultLat>>
                     ELSE prop.coordinates,
   governorate |-> prop.governorate,
   description |-> prop.description,
   images |-> prop.images,
   area |-> StoredNumber(prop.area),
   pricePerSqFt |-> StoredNumber(prop.pricePerSqFt),
   originalArea |-> prop.originalArea,
   originalPrice |-> prop.originalPrice,
   zoning |-> prop.zoning,
   propertyType |-> prop.propertyType,
   nearWater |-> prop.nearWater]

\* a faulty variant: the lookup never finds a document
FindOneNever(coll, doc) == FALSE

\* properties_collection.find_one(...) finds a document (lines 437-449)
FindOne(coll, doc) ==
  IF doc.hasUrl
    THEN \E k \in 1..Len(coll) :
           coll[k].hasUrl /\ coll[k].sourceUrl = doc.sourceUrl
    ELSE \E k \in 1..Len(coll) :
           coll[k].address = doc.address /\ coll[k].price = doc.price

\* The collection after the insert loop (lines 432-454) has handled the first
\* n rows of data_df
InsertLoop(coll, data_df, urlColumn, n) ==
  LET F[i \in 0..n] ==
        IF i = 0 THEN coll
        ELSE LET doc == MongoDoc(data_df[i], urlColumn)
             IN  IF FindOne(F[i - 1], doc) THEN F[i - 1] ELSE Append(F[i - 1], doc)
  IN  F[n]

\* save_to_mongodb returns True: the loop ran to its end over a non-empty list
SaveSucceeds(data_df, n) == Len(data_df) > 0 /\ n = Len(data_df)

(***************************************************************************)
(* Records.                                                                *)
(***************************************************************************)
\* The record scrape_tayara appends for one card (lines 140-213); r1, r2 are
\* the two draws of random.random()
ScrapedRecord(title, price, location_text, image_urls, url, r1, r2) ==
  LET location == Strip(location_text)
      governorate == extract_governorate(location)
  IN  [description |-> Str(Strip(title)),
       price |-> price,
       address |-> Str(location),
       images |-> ImgList([i \in 1..Len(image_urls) |-> Str(image_urls[i])]),
       sourceUrl |-> url,
       governorate |-> IF governorate = <<>> THEN Unknown ELSE governorate,
       coordinates |-> get_coordinates_from_location(location, r1, r2)]

\* A raw listing a caller passes to clean_and_enhance_data; it has no
\* governorate and no coordinates
RawRecord(description, price, address, images, url) ==
  [description |-> description,
   price |-> price,
   address |-> address,
   images |-> images,
   sourceUrl |-> url,
   governorate |-> <<>>,
   coordinates |-> <<>>]

\* The records of a cleaned frame with the derived columns dropped
WithoutDerived(d) ==
  [i \in 1..Len(d) |->
     [description |-> d[i].description,
      price |-> d[i].price,
      address |-> d[i].address,
      images |-> d[i].images,
      sourceUrl |-> d[i].sourceUrl,
      governorate |-> d[i].governorate,
      coordinates |-> d[i].coordinates]]

(***************************************************************************)
(* Actions.  S is the record of the sets the inputs are drawn from.        *)
(***************************************************************************)
InitOn(entries, urlColumns) ==
  /\ entry \in entries
  /\ hasUrl \in (IF entry = "main" THEN {TRUE} ELSE urlColumns)
  /\ pc = "collect"
  /\ results = <<>>
  /\ df = <<>>
  /\ df2 = <<>>
  /\ collection = <<>>
  /\ sinkCalls = 0
  /\ exported = FALSE
  /\ runs = 1
  /\ page = 1
  /\ cards = 0
  /\ fetched = 0

\* scrape_tayara: one card is read and its record appended
ScrapeCard(S) ==
  /\ entry = "main"
  /\ pc = "collect"
  /\ Len(results) < MaxBatch
  /\ \E title \in S.titles, price \in S.prices, loc \in S.locations,
        image_urls \in S.image_urls, url \in S.urls,
        r1 \in 0..(RandSteps - 1), r2 \in 0..(RandSteps - 1) :
       results' = Append(results, ScrapedRecord(title, price, loc, image_urls, url, r1, r2))
  /\ UNCHANGED <<page, cards, fetched, entry, pc, hasUrl, df, df2, collection, sinkCalls, exported, runs>>

\* scrape_tayara returns results to main
ScrapeReturn ==
  /\ entry = "main"
  /\ pc = "collect"
  /\ pc' = "scraped"
  /\ UNCHANGED <<page, cards, fetched, entry, hasUrl, results, df, df2, collection, sinkCalls, exported, runs>>

\* max_pages = 20
max_pages == 20

\* the 100 of `len(results) >= 100`
ListingLimit == 100

\* a faulty variant: the loop goes on when exactly ListingLimit records are held
LoopStopsStrict(next_page, n) == next_page > max_pages \/ n > ListingLimit

\* `if page > max_pages or len(results) >= 100: break`, after page += 1
LoopStops(next_page, n) == next_page > max_pages \/ n >= ListingLimit

\* scrape_tayara, lines 92-107: Chrome cannot be started and [] is returned
\* before the loop
DriverFails ==
  /\ entry = "main"
  /\ pc = "collect"
  /\ fetched = 0
  /\ pc' = "scraped"
  /\ UNCHANGED <<page, cards, fetched, entry, hasUrl, results, df, df2, collection,
                 sinkCalls, exported, runs>>

\* scrape_tayara, lines 121-136: the listing page is fetched.  driver.get or
\* find_elements raises and the error leaves scrape_tayara and main; or the
\* wait fails or no card is found and the loop is left; or n cards are found.
FetchPage ==
  /\ entry = "main"
  /\ pc = "collect"
  /\ fetched' = fetched + 1
  /\ \/ pc' = "fatal" /\ cards' = 0
     \/ pc' = "scraped" /\ cards' = 0
     \/ \E n \in 1..MaxCards : pc' = "cards" /\ cards' = n
  /\ UNCHANGED <<page, entry, hasUrl, results, df, df2, collection, sinkCalls,
                 exported, runs>>

\* scrape_tayara, lines 138-220: the next card of the page is handled; it
\* raises and is skipped, or its record is appended
PageCard(S) ==
  /\ entry = "main"
  /\ pc = "cards"
  /\ cards > 0
  /\ cards' = cards - 1
  /\ \/ results' = results
     \/ \E title \in S.titles, price \in S.prices, loc \in S.locations,
           image_urls \in S.image_urls, url \in S.urls,
           r1 \in S.rands, r2 \in S.rands :
          results' = Append(results,
                            ScrapedRecord(title, price, loc, image_urls, url, r1, r2))
  /\ UNCHANGED <<page, fetched, entry, pc, hasUrl, df, df2, collection, sinkCalls,
                 exported, runs>>

\* scrape_tayara, lines 222-226: the cards of the page are done
PageEnd ==
  /\ entry = "main"
  /\ pc = "cards"
  /\ cards = 0
  /\ page' = page + 1
  /\ pc' = IF LoopStops(page + 1, Len(results)) THEN "scraped" ELSE "collect"
  /\ UNCHANGED <<cards, fetched, entry, hasUrl, results, df, df2, collection,
                 sinkCalls, exported, runs>>

\* main: `if not results: return`
MainNoResults ==
  /\ entry = "main"
  /\ pc = "scraped"
  /\ Len(results) = 0
  /\ pc' = "done"
  /\ UNCHANGED <<page, cards, fetched, entry, hasUrl, results, df, df2, collection, sinkCalls, exported, runs>>

\* main: df = clean_and_enhance_data(results)
MainClean ==
  /\ entry = "main"
  /\ pc = "scraped"
  /\ Len(results) > 0
  /\ df' = clean_and_enhance_data(results, hasUrl)
  /\ pc' = "cleaned"
  /\ UNCHANGED <<page, cards, fetched, entry, hasUrl, results, df2, collection, sinkCalls, exported, runs>>

\* main: `if df.empty: return`
MainNoneLeft ==
  /\ entry = "main"
  /\ pc = "cleaned"
  /\ DfEmpty(df)
  /\ pc' = "done"
  /\ UNCHANGED <<page, cards, fetched, entry, hasUrl, results, df, df2, collection, sinkCalls, exported, runs>>

\* main, lines 501-524: save_to_mongodb(df); when it returns False the CSV and
\* JSON backups are written.  n: the rows handled before the connection or an
\* insert fails (all of them when nothing fails); written: the files could be
\* written, else the error leaves main.
MainSave ==
  /\ entry = "main"
  /\ pc = "cleaned"
  /\ ~ DfEmpty(df)
  /\ \E n \in 0..Len(df), written \in BOOLEAN :
       /\ collection' = InsertLoop(collection, df, hasUrl, n)
       /\ sinkCalls' = sinkCalls + 1
       /\ IF SaveSucceeds(df, n)
            THEN pc' = "done" /\ exported' = exported
            ELSE exported' = TRUE /\ pc' = (IF written THEN "done" ELSE "fatal")
  /\ UNCHANGED <<page, cards, fetched, entry, hasUrl, results, df, df2, runs>>

\* A caller adds one raw listing to the batch it will pass
SupplyRecord(S) ==
  /\ entry = "call"
  /\ pc = "collect"
  /\ Len(results) < MaxBatch
  /\ \E description \in S.descriptions, price \in S.prices, address \in S.addresses,
        images \in S.images, url \in S.urls :
       results' = Append(results, RawRecord(description, price, address, images,
                                            IF hasUrl THEN url ELSE ""))
  /\ UNCHANGED <<page, cards, fetched, entry, pc, hasUrl, df, df2, collection, sinkCalls, exported, runs>>

\* A caller runs clean_and_enhance_data(results)
CallClean ==
  /\ entry = "call"
  /\ pc = "collect"
  /\ df' = clean_and_enhance_data(results, hasUrl)
  /\ pc' = "cleaned"
  /\ UNCHANGED <<page, cards, fetched, entry, hasUrl, results, df2, collection, sinkCalls, exported, runs>>

\* A caller runs clean_and_enhance_data on the records of its own result
Reclean ==
  /\ entry = "call"
  /\ pc = "cleaned"
  /\ df2' = clean_and_enhance_data(WithoutDerived(df), hasUrl)
  /\ pc' = "recleaned"
  /\ UNCHANGED <<page, cards, fetched, entry, hasUrl, results, df, collection, sinkCalls, exported, runs>>

\* A caller runs save_to_mongodb(df)
CallSave ==
  /\ entry = "call"
  /\ pc = "cleaned"
  /\ \E n \in 0..Len(df) :
       collection' = InsertLoop(collection, df, hasUrl, n)
  /\ sinkCalls' = sinkCalls + 1
  /\ pc' = "done"
  /\ UNCHANGED <<page, cards, fetched, entry, hasUrl, results, df, df2, exported, runs>>

\* The program is started again; the collection is what the earlier runs left
NewRun(urlColumns) ==
  /\ pc \in {"done", "fatal"}
  /\ runs < MaxRuns
  /\ runs' = runs + 1
  /\ hasUrl' \in (IF entry = "main" THEN {TRUE} ELSE urlColumns)
  /\ pc' = "collect"
  /\ results' = <<>>
  /\ df' = <<>>
  /\ df2' = <<>>
  /\ sinkCalls' = 0
  /\ exported' = FALSE
  /\ page' = 1
  /\ cards' = 0
  /\ fetched' = 0
  /\ UNCHANGED <<entry, collection>>

(***************************************************************************)
(* The inputs the specifications draw from.                                *)
(***************************************************************************)
TextA == <<"a">>
TextSpaceA == <<" ", "a">>
TextBlank == <<" ">>
Text9m == <<"9", " ", "m">>
Text9m2 == <<"9", "M", "2">>
Text9mSup == <<"9", "\t", "m", "²">>
Text0m == <<"0", " ", "m">>
Text9mNoUnit == <<"9", "m">>
HttpA == <<"h", "t", "t", "p", "a">>
Junk == <<"x">>
HttpAJunkJoined == <<"h", "t", "t", "p", "a", ",", "x">>
Tunis == <<"T", "u", "n", "i", "s">>
AddrSpaced == <<"x", " ", " ", "y">>
AddrAriana == <<"A", "r", "i", "a", "n", "a">>
AddrZoneX == <<"Z", "o", "n", "e", " ", "X">>
AddrTwoNames == <<"m", "o", "n", "a", "s", "t", "i", "r", " ", "S", "O", "U", "S", "S", "E">>
AddrBenArousBroken == <<"B", "e", "n", "\n", "A", "r", "o", "u", "s">>

DedupSamples ==
  [descriptions |-> {Str(TextA), Str(TextSpaceA), Str(Text9m)},
   prices |-> {10, 97, 485001},
   addresses |-> {Str(Tunis)},
   images |-> {ImgList(<<Str(HttpA)>>)},
   urls |-> {"u1", "u2"}]

RepairSamples ==
  [descriptions |-> {Str(TextA), Str(TextBlank), NA},
   prices |-> {10, 11},
   addresses |-> {Str(AddrSpaced), Str(TextBlank)},
   images |-> {ImgList(<<Str(HttpA), Str(Junk), NA>>), ImgStr(HttpAJunkJoined), ImgList(<<>>)},
   urls |-> {"u1"}]

AreaSamples ==
  [descriptions |-> {Str(TextA), Str(Text9m), Str(Text9m2), Str(Text9mSup),
                     Str(Text0m), Str(Text9mNoUnit)},
   prices |-> {10, 96, 97, 485000, 485001},
   addresses |-> {Str(Tunis)},
   images |-> {ImgList(<<Str(HttpA)>>)},
   urls |-> {"u1"}]

SaveSamples ==
  [descriptions |-> {Str(TextA)},
   prices |-> {11, 12},
   addresses |-> {Str(Tunis)},
   images |-> {ImgList(<<Str(HttpA)>>)},
   urls |-> {"u1", "u2"}]

GeoSamples ==
  [titles |-> {TextA},
   prices |-> {11},
   locations |-> {AddrAriana, AddrZoneX, AddrTwoNames, AddrBenArousBroken},
   image_urls |-> {<<HttpA>>},
   urls |-> {"u1"}]

MainSamples ==
  [titles |-> {TextSpaceA, Text9m},
   prices |-> {10, 11},
   locations |-> {Tunis},
   image_urls |-> {<<HttpA, Junk>>},
   urls |-> {"u1"}]

TextTerrain == KwTerrain
TextAgricole == KwAgricole
TextVillaTerrain == <<"V","i","l","l","a"," ">> \o KwTerrain
TextTerrainAgricole == <<"T","E","R","R","A","I","N"," ">> \o KwAgricole
TextTerrainAgricoleIndustriel == KwTerrain \o <<" ">> \o KwAgricole \o <<" ">> \o KwIndustriel
TextTerrainCommercialIndustriel == KwTerrain \o <<" ">> \o KwCommercial \o <<" ">> \o KwIndustriel
TextTerrainCommercial == KwCommercial \o <<" ">> \o KwTerrain
TextTerrainFerme == KwTerrain \o <<" ">> \o KwFerme

TypeSamples ==
  [descriptions |-> {Str(TextA), Str(TextTerrain), Str(TextAgricole), Str(TextVillaTerrain),
                     Str(TextTerrainAgricole), Str(TextTerrainAgricoleIndustriel),
                     Str(TextTerrainCommercialIndustriel), Str(TextTerrainCommercial),
                     Str(TextTerrainFerme), NA},
   prices |-> {11},
   addresses |-> {Str(Tunis)},
   images |-> {ImgList(<<Str(HttpA)>>)},
   urls |-> {"u1"}]

PagingSamples ==
  [titles |-> {TextA},
   prices |-> {11},
   locations |-> {Tunis},
   image_urls |-> {<<HttpA>>},
   urls |-> {"u1"},
   rands |-> {0}]

(***************************************************************************)
(* Specifications.                                                         *)
(***************************************************************************)
\* clean_and_enhance_data on batches with repeated and near-repeated records
InitDedup == InitOn({"call"}, {TRUE})
NextDedup == SupplyRecord(DedupSamples) \/ CallClean \/ Reclean
SpecDedup == InitDedup /\ [][NextDedup]_vars

\* clean_and_enhance_data on batches with blank text and both forms of images
InitRepair == InitOn({"call"}, {TRUE})
NextRepair == SupplyRecord(RepairSamples) \/ CallClean
SpecRepair == InitRepair /\ [][NextRepair]_vars

\* clean_and_enhance_data on batches around the limits of pricePerSqFt
InitArea == InitOn({"call"}, {TRUE})
NextArea == SupplyRecord(AreaSamples) \/ CallClean
SpecArea == InitArea /\ [][NextArea]_vars

\* repeated runs of save_to_mongodb against one collection
InitSave == InitOn({"call"}, {TRUE, FALSE})
NextSave == SupplyRecord(SaveSamples) \/ CallClean \/ CallSave \/ NewRun({TRUE, FALSE})
SpecSave == InitSave /\ [][NextSave]_vars

\* clean_and_enhance_data on batches whose descriptions carry the keywords of
\* both classifiers; without a sourceUrl column the missing descriptions stay
InitType == InitOn({"call"}, {TRUE, FALSE})
NextType == SupplyRecord(TypeSamples) \/ CallClean
SpecType == InitType /\ [][NextType]_vars

\* scrape_tayara and the cleaning of what it returns
InitGeo == InitOn({"main"}, {TRUE})
NextGeo == ScrapeCard(GeoSamples) \/ ScrapeReturn \/ MainNoResults \/ MainClean
SpecGeo == InitGeo /\ [][NextGeo]_vars

\* the paging loop of scrape_tayara; every step that is enabled is taken in
\* the end, since the waits of the loop (page load, WebDriverWait, sleep) are
\* all bounded
InitPaging == InitOn({"main"}, {TRUE})
NextPaging == DriverFails \/ FetchPage \/ PageCard(PagingSamples) \/ PageEnd
SpecPaging == InitPaging /\ [][NextPaging]_vars /\ WF_vars(NextPaging)

\* one run of main
Init == InitOn({"main"}, {TRUE})
Next ==
  \/ ScrapeCard(MainSamples)
  \/ ScrapeReturn
  \/ MainNoResults
  \/ MainClean
  \/ MainNoneLeft
  \/ MainSave
Spec == Init /\ [][Next]_vars

(***************************************************************************)
(* Claims.                                                                 *)
(***************************************************************************)
\* The positions in results of the rows of frame d
Kept(d) == {d[k].idx + 1 : k \in 1..Len(d)}

\* The record of results a row of the frame stems from
Origin(row) == results[row.idx + 1]

SameTriple(a, b) ==
  /\ a.description = b.description
  /\ a.price = b.price
  /\ a.sourceUrl = b.sourceUrl

\* C1, as stated: no two records of the batch returned by
\* clean_and_enhance_data have the same sourceUrl.
C1_UniqueSourceUrl ==
  \A i, j \in 1..Len(df) : i # j => df[i].sourceUrl # df[j].sourceUrl

\* C1, amended: no two records of the batch returned by clean_and_enhance_data
\* stem from input records with the same sourceUrl, the same price and the same
\* description as given.
C1_NoRepeatedTriple ==
  \A i, j \in 1..Len(df) : i # j => ~ SameTriple(Origin(df[i]), Origin(df[j]))

\* C1, witness: two records with one sourceUrl are both in the returned batch.
C1_Witness ==
  /\ pc = "cleaned"
  /\ \E i, j \in 1..Len(df) : i # j /\ df[i].sourceUrl = df[j].sourceUrl

\* The positions of results that repeat an earlier record's triple, and the
\* first occurrences that are repeated later
Repeats == {j \in 1..Len(results) : \E i \in 1..(j - 1) : SameTriple(results[i], results[j])}
Repeated ==
  {i \in 1..Len(results) \ Repeats :
     \E j \in (i + 1)..Len(results) : SameTriple(results[i], results[j])}

C3_TextNonEmpty ==
  pc = "cleaned" =>
    /\ \A k \in 1..Len(df) :
         /\ ~ df[k].description.na /\ df[k].description.s # <<>>
         /\ ~ df[k].address.na /\ df[k].address.s # <<>>
    /\ \A i \in 1..Len(results) :
         (\/ results[i].description.na
          \/ results[i].address.na
          \/ Strip(results[i].description.s) = <<>>
          \/ Strip(results[i].address.s) = <<>>) => i \notin Kept(df)

\* C4, as stated: every entry of images of every output record is a string
\* that starts with "http", whichever form the images of the input had.
C4_ImagesAllHttp ==
  pc = "cleaned" =>
    \A k \in 1..Len(df) :
      /\ ~ df[k].images.isStr
      /\ \A e \in 1..Len(df[k].images.l) :
           /\ ~ df[k].images.l[e].na
           /\ StartsWith(df[k].images.l[e].s, HttpPrefix)

\* C5: a pricePerSqFt in the output lies in [1, 5000] and is present exactly
\* when the area is strictly positive; of the records that reach the filter,
\* one with a pricePerSqFt outside [1, 5000] is removed, and one with a
\* pricePerSqFt within it (5000 included) or with none is kept.
C5_PricePerSqFtRange ==
  pc = "cleaned" =>
    /\ \A k \in 1..Len(df) :
         /\ df[k].pricePerSqFt.present =>
              (df[k].pricePerSqFt.v >= 100 /\ df[k].pricePerSqFt.v <= 500000)
         /\ df[k].pricePerSqFt.present <=> (df[k].area.present /\ df[k].area.v > 0)
    /\ LET reached == BasicCleaning(DataFrame(results), hasUrl)
       IN  \A k \in 1..Len(reached) :
             LET sqft == SquareFeet(extract_area_m2(reached[k].description))
                 ppsf == PricePerSqFt(reached[k].price, sqft)
             IN  (reached[k].idx + 1) \in Kept(df) <=>
                   (ppsf.present => (ppsf.v >= 100 /\ ppsf.v <= 500000))

\* C5, witness: a record at exactly 5000 is kept and one at 5000.01 is removed.
C5_Witness ==
  /\ pc = "cleaned"
  /\ \E k \in 1..Len(df) : df[k].pricePerSqFt = Some(500000)
  /\ \E i \in 1..Len(results) :
       /\ PricePerSqFt(results[i].price,
                       SquareFeet(extract_area_m2(results[i].description))) = Some(500001)
       /\ i \notin Kept(df)

\* Two documents have the key save_to_mongodb looks d up by
SameKey(e, d) ==
  IF d.hasUrl
    THEN e.hasUrl /\ e.sourceUrl = d.sourceUrl
    ELSE e.address = d.address /\ e.price = d.price

\* C6: a step never changes or removes a document of the collection; a
\* document is added only when none before it has its key; and no two
\* documents of the collection have the same sourceUrl.
C6_InsertIfAbsent ==
  [][/\ Len(collection') >= Len(collection)
     /\ \A k \in 1..Len(collection) : collection'[k] = collection[k]
     /\ \A k \in (Len(collection) + 1)..Len(collection') :
          \A h \in 1..(k - 1) : ~ SameKey(collection'[h], collection'[k])
     /\ \A h, k \in 1..Len(collection') :
          (h # k /\ collection'[h].hasUrl /\ collection'[k].hasUrl)
            => collection'[h].sourceUrl # collection'[k].sourceUrl]_vars

\* C6, witness: a later run has offered a record whose sourceUrl the collection
\* held with another price, and the document is as it was.
C6_Witness ==
  /\ pc = "done"
  /\ runs = 2
  /\ hasUrl
  /\ \E i \in 1..Len(df), k \in 1..Len(collection) :
       /\ collection[k].hasUrl
       /\ collection[k].sourceUrl = df[i].sourceUrl
       /\ collection[k].price # df[i].price
       /\ \A h \in 1..Len(collection) :
            ~ (collection[h].sourceUrl = df[i].sourceUrl /\ collection[h].price = df[i].price)

\* governorate is the first name of the table that occurs, lower-cased, in the
\* lower-cased text, and "Unknown" when none does
IsGovernorateOf(governorate, text) ==
  LET lowered == Lower(text)
      occurs(g) == Contains(lowered, LowerNames[g])
  IN  \/ \E g \in 1..NumGovernorates :
           /\ governorate = GOVERNORATE_COORDINATES[g].name
           /\ occurs(g)
           /\ \A h \in 1..(g - 1) : ~ occurs(h)
      \/ /\ governorate = Unknown
         /\ \A g \in 1..NumGovernorates : ~ occurs(g)

Within(x, centre, radius) == x >= centre - radius /\ x <= centre + radius

C9_EmptyRunEndsQuietly ==
  /\ (pc \in {"done", "fatal"} /\ (Len(results) = 0 \/ Len(df) = 0)) =>
       (pc = "done" /\ sinkCalls = 0 /\ ~ exported /\ collection = <<>>)
  /\ (sinkCalls > 0 \/ exported) => (Len(results) > 0 /\ Len(df) > 0)
  /\ clean_and_enhance_data(<<>>, TRUE) = <<>>

\* C9, witness: a run whose records were all removed by the cleaning has ended.
C9_Witness ==
  /\ pc = "done"
  /\ Len(results) > 0
  /\ Len(df) = 0
  /\ sinkCalls = 0

\* C10, as stated: a second pass over the records of the output, derived
\* fields dropped, removes no record and gives each the same fields.
C10_Idempotent ==
  pc = "recleaned" =>
    /\ Len(df2) = Len(df)
    /\ \A k \in 1..Len(df2) :
         k <= Len(df) => [df2[k] EXCEPT !.idx = df[k].idx] = df[k]

(***************************************************************************)
(* C11.                                                                    *)
(***************************************************************************)
\* the description is a string whose lower-cased text contains the word
Mentions(description, word) ==
  ~ description.na /\ Contains(Lower(description.s), word)

PropertyTypes ==
  {"autre", "terrain_agricole", "terrain_industriel", "terrain_commercial",
   "terrain_construction"}

\* C11: propertyType is "autre" when the description is not a string or its
\* lower-cased text does not contain "terrain"; otherwise the tag follows the
\* priority agricole > industriel > commercial > construction.  Two records
\* that agree on these four words carry the same propertyType whatever their
\* zoning is.
C11_PropertyTypeByPriority ==
  pc = "cleaned" =>
    /\ \A k \in 1..Len(df) :
         LET d == df[k].description
             tag == df[k].propertyType
         IN  /\ tag \in PropertyTypes
             /\ tag = "autre" <=> ~ Mentions(d, KwTerrain)
             /\ tag = "terrain_agricole" <=>
                  Mentions(d, KwTerrain) /\ Mentions(d, KwAgricole)
             /\ tag = "terrain_industriel" <=>
                  /\ Mentions(d, KwTerrain) /\ Mentions(d, KwIndustriel)
                  /\ ~ Mentions(d, KwAgricole)
             /\ tag = "terrain_commercial" <=>
                  /\ Mentions(d, KwTerrain) /\ Mentions(d, KwCommercial)
                  /\ ~ Mentions(d, KwAgricole) /\ ~ Mentions(d, KwIndustriel)
    /\ \A k \in 1..Len(df), l \in 1..Len(df) :
         (\A word \in {KwTerrain, KwAgricole, KwIndustriel, KwCommercial} :
            Mentions(df[k].description, word) <=> Mentions(df[l].description, word))
           => df[k].propertyType = df[l].propertyType

\* C11, witness: two cleaned records tagged terrain_agricole, one zoned
\* industrial and one zoned agricultural.
C11_Witness ==
  /\ pc = "cleaned"
  /\ \E k \in 1..Len(df), l \in 1..Len(df) :
       /\ df[k].propertyType = "terrain_agricole"
       /\ df[l].propertyType = "terrain_agricole"
       /\ df[k].zoning = "industrial"
       /\ df[l].zoning = "agricultural"

\* C11, second case: a record whose description is missing is tagged "autre".
C11_MissingIsAutre ==
  /\ pc = "cleaned"
  /\ \E k \in 1..Len(df) : df[k].description.na /\ df[k].propertyType = "autre"

(***************************************************************************)
(* C12.                                                                    *)
(***************************************************************************)
InLoop == pc \in {"collect", "cards"}

\* every step of the paging loop keeps to the limits
PagingStep ==
  /\ fetched' <= max_pages
  \* a page is fetched only while fewer than 100 records are held
  /\ fetched' > fetched => Len(results) < ListingLimit
  \* a page that fails to load or has no cards ends the loop; otherwise its
  \* cards are gone through
  /\ (pc = "collect" /\ fetched' > fetched) =>
        \/ pc' \in {"scraped", "fatal"} /\ cards' = 0 /\ results' = results
        \/ pc' = "cards" /\ cards' > 0 /\ results' = results
  \* a card, raising or not, leaves the loop running
  /\ (pc = "cards" /\ cards > 0) =>
        /\ pc' = "cards"
        /\ cards' = cards - 1
        /\ results' = results \/ (Len(results') = Len(results) + 1)
  \* at the end of a page the loop stops exactly when 100 records are held or
  \* the page was the 20th
  /\ (pc = "cards" /\ cards = 0) =>
        /\ pc' \in {"scraped", "collect"}
        /\ pc' = "scraped" <=> (Len(results) >= ListingLimit \/ fetched = max_pages)

\* C12: the paging loop ends on every run; it fetches at most 20 listing
\* pages; it stops at the end of the first page after which at least 100
\* records are held, or earlier at the first page that fails to load or has no
\* cards; a card that raises is skipped and the loop goes on.
C12_PagingTerminates ==
  /\ [][PagingStep]_vars
  /\ <>(~ InLoop)

\* C12, as a state predicate: the counters of the loop agree and stay in range
C12_PagesInRange ==
  /\ fetched <= max_pages
  /\ InLoop => fetched = (IF pc = "cards" THEN page ELSE page - 1)
  /\ (pc = "collect" /\ fetched > 0) => Len(results) < ListingLimit

\* C12, witness: the loop has stopped before the 20th page with at least 100
\* records, on pages that did not all give MaxCards records.
C12_Witness ==
  /\ pc = "scraped"
  /\ Len(results) >= ListingLimit
  /\ fetched < max_pages
  /\ Len(results) < fetched * MaxCards

\* C12, second case: the loop has stopped after the 20th page with fewer than
\* 100 records.
C12_StoppedByPages ==
  /\ pc = "scraped"
  /\ fetched = max_pages
  /\ page = max_pages + 1
  /\ Len(results) < ListingLimit

====
